---------------------------- MODULE Spec2Model ----------------------------
(***************************************************************************)
(* Model of src/app.py: ExchangeRateService (tiered retrieval of exchange  *)
(* rates with a local fallback file) and FinanceCalculator (percentage     *)
(* change and period statistics).                                          *)
(*                                                                         *)
(* Conventions.                                                            *)
(*  - A date string 'YYYY-MM-DD' is the sequence of its eight digits (the  *)
(*    two dashes sit at fixed positions and never decide a comparison).    *)
(*  - A datetime is the triple <<year, month, day>>.                       *)
(*  - A Python dict is a function; a missing key is a key outside DOMAIN.  *)
(*  - A rate is an integer number of millionths (0.0009 is 900).           *)
(*  - A float result of calculate_percentage_change is the exact fraction  *)
(*    [kind |-> "float", num, den] or the infinite float [kind |-> "inf"]. *)
(***************************************************************************)
EXTENDS Integers, Sequences, FiniteSets, TLC

VARIABLES
    pc,               \* position of the get_rates call
    start_date,       \* get_rates argument
    end_date,         \* get_rates argument
    current,          \* _get_rates_day_by_day: loop variable (a datetime)
    rates,            \* _get_rates_day_by_day: accumulated dict
    result,           \* the dict get_rates returns
    source,           \* which tier built the result
    timeframe_calls,  \* number of requests to /timeframe
    historical_calls, \* date string -> number of requests to /historical
    fallback_reads,   \* number of times the fallback file was opened
    fallback_file,    \* the fallback file as it was when opened
    fb_range,         \* the (start, end) pair handed to _load_fallback_data
    timeframe_resp,   \* the response the /timeframe request got
    day_ok,           \* day-by-day: dates whose request returned a quote
    day_failed,       \* day-by-day: dates whose request failed in any way
    remote_ok,        \* some remote call returned a quote for the pair
    all_failed,       \* every remote call so far ended in a failure
    cpc,              \* position of the calculator call
    rates_data,       \* process_rates_data argument, dict in insertion order
    breakdown,        \* process_rates_data argument
    output,           \* the dict process_rates_data returns
    old_value,        \* calculate_percentage_change argument
    new_value,        \* calculate_percentage_change argument
    ret               \* the value calculate_percentage_change returns

retrieval_vars == <<pc, start_date, end_date, current, rates, result, source,
                    timeframe_calls, historical_calls, fallback_reads,
                    fallback_file, fb_range, timeframe_resp, day_ok,
                    day_failed, remote_ok, all_failed>>
calc_vars == <<cpc, rates_data, breakdown, output, old_value, new_value, ret>>
vars == <<retrieval_vars, calc_vars>>

-----------------------------------------------------------------------------
(* Bounds *)

\* The calendar window holds the days BaseDate .. BaseDate + MaxDay.
MaxDay == 3
\* Longest series handed to process_rates_data.
MaxSeriesLen == 3

\* First day of the calendar window: the window crosses a year boundary.
BaseDate == <<2024, 12, 30>>

-----------------------------------------------------------------------------
(* Calendar: datetime.strptime, strftime, timedelta(days=1), comparison *)

IsLeap(y) == (y % 4 = 0 /\ y % 100 # 0) \/ y % 400 = 0

DaysInMonth(y, m) ==
    IF m = 2 THEN (IF IsLeap(y) THEN 29 ELSE 28)
    ELSE IF m \in {4, 6, 9, 11} THEN 30 ELSE 31

\* datetime + timedelta(days=1)
NextDate(dt) ==
    IF dt[3] < DaysInMonth(dt[1], dt[2]) THEN <<dt[1], dt[2], dt[3] + 1>>
    ELSE IF dt[2] < 12 THEN <<dt[1], dt[2] + 1, 1>>
    ELSE <<dt[1] + 1, 1, 1>>

\* Faulty variant: the loop variable is not advanced
PlusOneDay_Stuck(dt) == dt

\* _get_rates_day_by_day, line 136: current += timedelta(days=1)
PlusOneDay(dt) == NextDate(dt)

\* datetime <= datetime
DtLeq(a, b) ==
    \/ a[1] < b[1]
    \/ a[1] = b[1] /\ a[2] < b[2]
    \/ a[1] = b[1] /\ a[2] = b[2] /\ a[3] <= b[3]

\* dt.strftime('%Y-%m-%d'): zero-padded digits
strftime(dt) ==
    << dt[1] \div 1000, (dt[1] \div 100) % 10, (dt[1] \div 10) % 10, dt[1] % 10,
       dt[2] \div 10, dt[2] % 10, dt[3] \div 10, dt[3] % 10 >>

\* datetime.strptime(s, '%Y-%m-%d')
strptime(s) ==
    << s[1] * 1000 + s[2] * 100 + s[3] * 10 + s[4], s[5] * 10 + s[6], s[7] * 10 + s[8] >>

\* str < str: lexicographic comparison of two date strings
RECURSIVE StrLessFrom(_, _, _)
StrLessFrom(a, b, i) ==
    IF i > Len(a) THEN i <= Len(b)
    ELSE IF i > Len(b) THEN FALSE
    ELSE IF a[i] # b[i] THEN a[i] < b[i]
    ELSE StrLessFrom(a, b, i + 1)

StrLess(a, b) == StrLessFrom(a, b, 1)

RECURSIVE DayNumber(_)
DayNumber(n) == IF n = 0 THEN BaseDate ELSE NextDate(DayNumber(n - 1))

\* The date strings of the calendar window
AllDates == { strftime(DayNumber(n)) : n \in 0..MaxDay }


-----------------------------------------------------------------------------
(* Dicts *)

EmptyDict == [k \in {} |-> 0]

\* d.get(k, default)
DictGet(d, k, default) == IF k \in DOMAIN d THEN d[k] ELSE default

-----------------------------------------------------------------------------
(* The environment: what the remote API answers and what the file holds *)

\* get_rates defaults, as both route layers pass them
FromCurrency == "USD"
ToCurrency == "EUR"

\* f"{from_currency}{to_currency}"
CurrencyPair(from_currency, to_currency) == from_currency \o to_currency

\* Rates the remote API may quote, in millionths
RemoteRates == {0, 900}

\* A response of requests.get: net = "error" when the call itself raises
\* (connection error, timeout); json = FALSE when response.json() raises.
Response(net, status, json, data) ==
    [net |-> net, status |-> status, json |-> json, data |-> data]

NoResponse == Response("none", 0, FALSE, EmptyDict)

\* The quote maps one date can carry
QuoteMaps ==
    { CurrencyPair(FromCurrency, ToCurrency) :> r : r \in RemoteRates }
        \cup { "USDGBP" :> 790, EmptyDict }

\* Bodies of /historical
HistoricalPayloads ==
    { [success |-> FALSE], [success |-> TRUE] }
        \cup { [quotes |-> q] : q \in {"USDGBP" :> 790} }
        \cup { [success |-> TRUE, quotes |-> q] : q \in QuoteMaps }

\* Bodies of /timeframe: any dates of the window, inside the request or not
TimeframeQuotes ==
    UNION { [S -> QuoteMaps \ {EmptyDict}] : S \in SUBSET AllDates }

TimeframePayloads ==
    { [success |-> FALSE], [success |-> TRUE] }
        \cup { [success |-> TRUE, quotes |-> q] : q \in TimeframeQuotes }

FailedResponses ==
    { Response("error", 0, FALSE, EmptyDict),
      Response("ok", 500, FALSE, EmptyDict),
      Response("ok", 200, FALSE, EmptyDict) }

HistoricalResponses ==
    FailedResponses \cup { Response("ok", 200, TRUE, d) : d \in HistoricalPayloads }

TimeframeResponses ==
    FailedResponses \cup { Response("ok", 200, TRUE, d) : d \in TimeframePayloads }

\* What data/sample_api.json may hold for one date
FallbackRateData(date_str) ==
    IF date_str[8] % 2 = 0 THEN [EUR |-> 850, GBP |-> 780]
    ELSE [GBP |-> 790]

FallbackTables ==
    { [d \in S |-> FallbackRateData(d)] : S \in SUBSET AllDates }

\* The fallback file: readable = FALSE when open() raises, json = FALSE when
\* json.load raises
File(readable, json, data) == [readable |-> readable, json |-> json, data |-> data]

NoFile == File(FALSE, FALSE, EmptyDict)

FallbackFiles ==
    { File(FALSE, FALSE, EmptyDict), File(TRUE, FALSE, EmptyDict),
      File(TRUE, TRUE, [base |-> "EUR"]) }
        \cup { File(TRUE, TRUE, [rates |-> t]) : t \in FallbackTables }
        \cup { File(TRUE, TRUE, [base |-> "EUR", rates |-> t]) : t \in FallbackTables }

-----------------------------------------------------------------------------
(* ExchangeRateService *)

NoResult == [pending |-> TRUE]

\* The success dict every remote tier returns
SuccessResult(base, r) ==
    [success |-> TRUE, historical |-> TRUE, base |-> base, rates |-> r]

\* response.status_code == 200, response.json() parses, and
\* data.get('success', False) and 'quotes' in data
UsablePayload(resp) ==
    /\ resp.net = "ok"
    /\ resp.status = 200
    /\ resp.json
    /\ DictGet(resp.data, "success", FALSE)
    /\ "quotes" \in DOMAIN resp.data

\* A failed call: network error or timeout, non-200 status, unparsable body,
\* or a payload that does not say success
RemoteFailure(resp) ==
    ~(resp.net = "ok" /\ resp.status = 200 /\ resp.json
        /\ DictGet(resp.data, "success", FALSE))

\* requests.get or response.json() raised
Raises(resp) == resp.net = "error" \/ (resp.status = 200 /\ ~resp.json)

\* _get_timeframe_rates, lines 53-57: the reshaped series
ReshapeTimeframe(quotes, from_currency, to_currency) ==
    LET currency_pair == CurrencyPair(from_currency, to_currency)
        kept == { date_str \in DOMAIN quotes : currency_pair \in DOMAIN quotes[date_str] }
    IN [date_str \in kept |-> (to_currency :> quotes[date_str][currency_pair])]

\* Faulty variant: the range filter excludes its end points
FilterRates_Strict(table, start_str, end_str) ==
    LET start == strptime(start_str)
        end == strptime(end_str)
        kept == { date_str \in DOMAIN table :
                    ~DtLeq(strptime(date_str), start) /\ ~DtLeq(end, strptime(date_str)) }
    IN [date_str \in kept |-> table[date_str]]

\* _load_fallback_data, lines 159-166: the filtered table
FilterRates(table, start_str, end_str) ==
    LET start == strptime(start_str)
        end == strptime(end_str)
        kept == { date_str \in DOMAIN table :
                    DtLeq(start, strptime(date_str)) /\ DtLeq(strptime(date_str), end) }
    IN [date_str \in kept |-> table[date_str]]

\* Faulty variant: an empty slice of the table is reported as a failure
LoadFallbackData_EmptyIsFailure(file, start_str, end_str) ==
    IF ~file.readable THEN [success |-> FALSE, error |-> "No such file or directory"]
    ELSE IF ~file.json THEN [success |-> FALSE, error |-> "Expecting value"]
    ELSE IF "rates" \notin DOMAIN file.data THEN [success |-> FALSE, error |-> "'rates'"]
    ELSE IF DOMAIN FilterRates(file.data.rates, start_str, end_str) = {}
    THEN [success |-> FALSE, error |-> "No rates in range"]
    ELSE SuccessResult(DictGet(file.data, "base", "USD"),
                       FilterRates(file.data.rates, start_str, end_str))

\* _load_fallback_data: the dict it returns for a file
LoadFallbackData(file, start_str, end_str) ==
    IF ~file.readable THEN [success |-> FALSE, error |-> "No such file or directory"]
    ELSE IF ~file.json THEN [success |-> FALSE, error |-> "Expecting value"]
    ELSE IF "rates" \notin DOMAIN file.data THEN [success |-> FALSE, error |-> "'rates'"]
    ELSE SuccessResult(DictGet(file.data, "base", "USD"),
                       FilterRates(file.data.rates, start_str, end_str))

Init ==
    /\ pc = "idle"
    /\ start_date = strftime(BaseDate)
    /\ end_date = strftime(BaseDate)
    /\ current = BaseDate
    /\ rates = EmptyDict
    /\ result = NoResult
    /\ source = "none"
    /\ timeframe_calls = 0
    /\ historical_calls = [d \in AllDates |-> 0]
    /\ fallback_reads = 0
    /\ fallback_file = NoFile
    /\ fb_range = <<strftime(BaseDate), strftime(BaseDate)>>
    /\ timeframe_resp = NoResponse
    /\ day_ok = {}
    /\ day_failed = {}
    /\ remote_ok = FALSE
    /\ all_failed = TRUE
    /\ cpc = "idle"
    /\ rates_data = NoResult
    /\ breakdown = "day"
    /\ output = NoResult
    /\ old_value = 0
    /\ new_value = 0
    /\ ret = NoResult

\* Faulty variant: every request takes the timeframe path
GetRates_NoDispatch(s, e) ==
    /\ pc = "idle"
    /\ start_date' = s
    /\ end_date' = e
    /\ pc' = "timeframe"
    /\ UNCHANGED <<current, rates, result, source, timeframe_calls,
                   historical_calls, fallback_reads, fallback_file, fb_range,
                   timeframe_resp, day_ok, day_failed, remote_ok, all_failed>>
    /\ UNCHANGED calc_vars

\* get_rates, lines 22-28: dispatch on start_date != end_date
GetRates(s, e) ==
    /\ pc = "idle"
    /\ start_date' = s
    /\ end_date' = e
    /\ pc' = IF s # e THEN "timeframe" ELSE "historical"
    /\ UNCHANGED <<current, rates, result, source, timeframe_calls,
                   historical_calls, fallback_reads, fallback_file, fb_range,
                   timeframe_resp, day_ok, day_failed, remote_ok, all_failed>>
    /\ UNCHANGED calc_vars

\* _get_timeframe_rates: the one request to /timeframe and what follows it
TimeframeRequest(resp) ==
    /\ pc = "timeframe"
    /\ timeframe_calls' = timeframe_calls + 1
    /\ timeframe_resp' = resp
    /\ all_failed' = (all_failed /\ RemoteFailure(resp))
    /\ IF UsablePayload(resp)
       THEN /\ result' = SuccessResult(FromCurrency,
                            ReshapeTimeframe(resp.data.quotes, FromCurrency, ToCurrency))
            /\ source' = "timeframe"
            /\ pc' = "done"
            /\ remote_ok' = (DOMAIN ReshapeTimeframe(resp.data.quotes, FromCurrency,
                                                     ToCurrency) # {})
            /\ UNCHANGED <<current, rates>>
       ELSE \* lines 67 and 71: both ways lead to _get_rates_day_by_day
            /\ current' = strptime(start_date)
            /\ rates' = EmptyDict
            /\ pc' = "daybyday"
            /\ UNCHANGED <<result, source, remote_ok>>
    /\ UNCHANGED <<start_date, end_date, historical_calls, fallback_reads,
                   fallback_file, fb_range, day_ok, day_failed>>
    /\ UNCHANGED calc_vars

\* _get_rates_day_by_day, lines 115-136: one turn of the loop
DayByDayRequest(resp) ==
    /\ pc = "daybyday"
    /\ DtLeq(current, strptime(end_date))
    /\ LET date_str == strftime(current)
           currency_pair == CurrencyPair(FromCurrency, ToCurrency)
           quoted == UsablePayload(resp) /\ currency_pair \in DOMAIN resp.data.quotes
       IN /\ historical_calls' = [historical_calls EXCEPT ![date_str] = @ + 1]
          /\ day_ok' = IF quoted THEN day_ok \cup {date_str} ELSE day_ok
          /\ day_failed' = IF quoted THEN day_failed ELSE day_failed \cup {date_str}
          /\ remote_ok' = (remote_ok \/ quoted)
          /\ all_failed' = (all_failed /\ RemoteFailure(resp))
          /\ IF Raises(resp)
             THEN \* line 148: the exception leaves the loop
                  /\ pc' = "fallback"
                  /\ fb_range' = <<start_date, end_date>>
                  /\ rates' = EmptyDict
                  /\ UNCHANGED current
             ELSE /\ rates' = IF quoted
                              THEN (date_str :> (ToCurrency :> resp.data.quotes[currency_pair]))
                                       @@ rates
                              ELSE rates
                  /\ current' = PlusOneDay(current)
                  /\ UNCHANGED <<pc, fb_range>>
    /\ UNCHANGED <<start_date, end_date, result, source, timeframe_calls,
                   fallback_reads, fallback_file, timeframe_resp>>
    /\ UNCHANGED calc_vars

\* _get_rates_day_by_day, lines 138-150: after the loop
DayByDayReturn ==
    /\ pc = "daybyday"
    /\ ~DtLeq(current, strptime(end_date))
    /\ IF DOMAIN rates # {}
       THEN /\ result' = SuccessResult(FromCurrency, rates)
            /\ source' = "daybyday"
            /\ pc' = "done"
            /\ UNCHANGED fb_range
       ELSE \* raise Exception("No rates retrieved"), caught on line 148
            /\ pc' = "fallback"
            /\ fb_range' = <<start_date, end_date>>
            /\ UNCHANGED <<result, source>>
    /\ UNCHANGED <<start_date, end_date, current, rates, timeframe_calls,
                   historical_calls, fallback_reads, fallback_file,
                   timeframe_resp, day_ok, day_failed, remote_ok, all_failed>>
    /\ UNCHANGED calc_vars

\* _get_historical_rate: the one request for a single date
HistoricalRequest(resp) ==
    /\ pc = "historical"
    /\ LET date == start_date
           currency_pair == CurrencyPair(FromCurrency, ToCurrency)
           quoted == UsablePayload(resp) /\ currency_pair \in DOMAIN resp.data.quotes
       IN /\ historical_calls' = [historical_calls EXCEPT ![date] = @ + 1]
          /\ remote_ok' = quoted
          /\ all_failed' = RemoteFailure(resp)
          /\ IF quoted
             THEN /\ result' = SuccessResult(FromCurrency,
                                  date :> (ToCurrency :> resp.data.quotes[currency_pair]))
                  /\ source' = "historical"
                  /\ pc' = "done"
                  /\ UNCHANGED fb_range
             ELSE \* lines 100-104: every other outcome raises into the handler
                  /\ pc' = "fallback"
                  /\ fb_range' = <<date, date>>
                  /\ UNCHANGED <<result, source>>
    /\ UNCHANGED <<start_date, end_date, current, rates, timeframe_calls,
                   fallback_reads, fallback_file, timeframe_resp, day_ok, day_failed>>
    /\ UNCHANGED calc_vars

\* _load_fallback_data: open the file, filter, return
LoadFallback(file) ==
    /\ pc = "fallback"
    /\ fallback_reads' = fallback_reads + 1
    /\ fallback_file' = file
    /\ result' = LoadFallbackData(file, fb_range[1], fb_range[2])
    /\ source' = "fallback"
    /\ pc' = "done"
    /\ UNCHANGED <<start_date, end_date, current, rates, timeframe_calls,
                   historical_calls, fb_range, timeframe_resp, day_ok,
                   day_failed, remote_ok, all_failed>>
    /\ UNCHANGED calc_vars

Next ==
    \/ \E s \in AllDates, e \in AllDates : GetRates(s, e)
    \/ \E resp \in TimeframeResponses : TimeframeRequest(resp)
    \/ \E resp \in HistoricalResponses : DayByDayRequest(resp)
    \/ DayByDayReturn
    \/ \E resp \in HistoricalResponses : HistoricalRequest(resp)
    \/ \E file \in FallbackFiles : LoadFallback(file)

Spec == Init /\ [][Next]_vars

-----------------------------------------------------------------------------
(* Claims about ExchangeRateService *)

\* Position of a date string in the calendar window
DayIndex(d) == CHOOSE n \in 0..MaxDay : strftime(DayNumber(n)) = d

\* d is a calendar day of [s, e] inclusive
InRange(d, s, e) == DayIndex(s) <= DayIndex(d) /\ DayIndex(d) <= DayIndex(e)

Returned == pc = "done"

\* The fallback file, once read, could be opened and parsed and holds a table
FallbackLoadable ==
    fallback_file.readable /\ fallback_file.json /\ "rates" \in DOMAIN fallback_file.data

\* The /timeframe request got a success payload with per-date quotes
TimeframeUsable == timeframe_calls = 1 /\ UsablePayload(timeframe_resp)

\* C1: for start <= end and every behaviour of the remote API and of the
\* fallback file, every date key of the series get_rates returns lies in
\* [start, end] inclusive.
C1_SeriesWithinRange ==
    (Returned /\ DayIndex(start_date) <= DayIndex(end_date) /\ result.success)
        => \A d \in DOMAIN result.rates : InRange(d, start_date, end_date)

\* C2: if every remote call fails (network error or timeout, non-200 status,
\* unparsable or unsuccessful payload), get_rates reads the fallback file, and
\* if the dataset is loadable it returns a success result whose series is
\* exactly the dataset's table restricted to the dates of [start, end],
\* tagged with the dataset's base currency ('USD' when the dataset names
\* none), for start == end and for start != end alike.
C2_FallbackSlice ==
    (Returned /\ all_failed) =>
        /\ fallback_reads = 1
        /\ FallbackLoadable =>
              LET table == fallback_file.data.rates
              IN /\ result.success
                 /\ DOMAIN result.rates =
                       { d \in DOMAIN table : InRange(d, start_date, end_date) }
                 /\ \A d \in DOMAIN result.rates : result.rates[d] = table[d]
                 /\ result.base = (IF "base" \in DOMAIN fallback_file.data
                                   THEN fallback_file.data.base ELSE "USD")

C2_Witness ==
    /\ Returned /\ all_failed /\ FallbackLoadable
    /\ start_date # end_date
    /\ timeframe_calls = 1
    /\ DOMAIN result.rates # {}
    /\ DOMAIN result.rates # DOMAIN fallback_file.data.rates
    /\ "base" \in DOMAIN fallback_file.data

\* C3: get_rates always returns a result dict: a call in progress always has
\* a next step, and the result is a structured failure (success false, with
\* an error message) only when the fallback file was read and could not be
\* loaded; in every other run it is success true with a series.
C3_AlwaysReturnsResult ==
    /\ pc \in {"idle", "timeframe", "historical", "daybyday", "fallback", "done"}
    /\ (pc # "done") => ENABLED Next
    /\ Returned =>
          /\ "success" \in DOMAIN result
          /\ (~result.success) =>
                (fallback_reads = 1 /\ ~FallbackLoadable /\ "error" \in DOMAIN result)
          /\ (fallback_reads = 0 \/ FallbackLoadable) =>
                (result.success /\ "rates" \in DOMAIN result)

C3_Witness ==
    /\ Returned /\ ~result.success /\ fallback_reads = 1
    /\ fallback_file.readable /\ ~fallback_file.json
    /\ timeframe_calls = 1 /\ day_failed # {}

\* C4: when start == end, get_rates issues the historical-rate request for
\* that one date and never a timeframe request nor a turn of the day-by-day
\* loop; if the request returns a quote for the pair, the series has exactly
\* one entry, keyed by that date, and the fallback file is not read.
C4_SingleDatePath ==
    (pc # "idle" /\ start_date = end_date) =>
        /\ timeframe_calls = 0
        /\ pc \in {"historical", "fallback", "done"}
        /\ day_ok = {} /\ day_failed = {}
        /\ \A d \in AllDates \ {start_date} : historical_calls[d] = 0
        /\ historical_calls[start_date] = (IF pc = "historical" THEN 0 ELSE 1)
        /\ (Returned /\ remote_ok) =>
              /\ result.success
              /\ DOMAIN result.rates = {start_date}
              /\ fallback_reads = 0

C4_Witness ==
    /\ Returned /\ start_date = end_date /\ remote_ok
    /\ start_date # strftime(BaseDate)
    /\ result.rates[start_date][ToCurrency] = 900

\* C8: in the multi-date path, a timeframe success payload from which no date
\* yields a quote for the pair (the reshaped series is empty) is not returned:
\* get_rates goes on to the day-by-day tier.
C8_EmptyTimeframeFallsThrough ==
    (Returned /\ DayIndex(start_date) < DayIndex(end_date) /\ TimeframeUsable
       /\ DOMAIN ReshapeTimeframe(timeframe_resp.data.quotes, FromCurrency, ToCurrency) = {})
        => source \in {"daybyday", "fallback"}

\* C9: in the day-by-day tier a day whose request fails in any way is skipped
\* and the loop goes on: the returned series holds exactly the days whose
\* request succeeded, and the fallback is used only when no day succeeded.
C9_FailedDaysSkipped ==
    (Returned /\ source \in {"daybyday", "fallback"}
       /\ DayIndex(start_date) < DayIndex(end_date)) =>
        /\ (day_ok # {}) => (source = "daybyday" /\ DOMAIN result.rates = day_ok)
        /\ (source = "fallback") => day_ok = {}

\* Number of calendar days of [start, end]
NumDays == Cardinality({ d \in AllDates : InRange(d, start_date, end_date) })

RECURSIVE SumCalls(_)
SumCalls(S) ==
    IF S = {} THEN 0
    ELSE LET d == CHOOSE x \in S : TRUE IN historical_calls[d] + SumCalls(S \ {d})

\* C10: get_rates retries no remote call: at most one timeframe request, at
\* most one historical-rate request per calendar day of [start, end] and none
\* for any other day (so at most 1 + number of days requests, and exactly one
\* when start == end), at most one read of the fallback file, and no request
\* of the day-by-day loop when start > end.
C10_NoRetry ==
    /\ timeframe_calls <= 1
    /\ fallback_reads <= 1
    /\ \A d \in AllDates : historical_calls[d] <= 1
    /\ pc # "idle" =>
          /\ \A d \in AllDates :
                historical_calls[d] = 1 => InRange(d, start_date, end_date)
          /\ timeframe_calls + SumCalls(AllDates) <= 1 + NumDays
          /\ (Returned /\ start_date = end_date) =>
                timeframe_calls + SumCalls(AllDates) = 1
          /\ DayIndex(start_date) > DayIndex(end_date) => SumCalls(AllDates) = 0

\* C10 with termination: every get_rates call returns, and retries nothing.
\* Each remote call has a timeout and the code runs to completion, so a call
\* in progress always takes its next step.
FairSpec == Spec /\ WF_vars(Next)

C10_TerminatesWithoutRetry == []C10_NoRetry /\ <>Returned

C10_Witness ==
    /\ Returned /\ fallback_reads = 1
    /\ start_date = strftime(BaseDate) /\ DayIndex(end_date) = MaxDay
    /\ timeframe_calls + SumCalls(AllDates) = 1 + NumDays

-----------------------------------------------------------------------------
(* FinanceCalculator *)
(* Here a dict whose iteration order matters (rates_data['rates']) is the    *)
(* sequence of its <<key, value>> pairs in insertion order, keys distinct.   *)

\* float('inf')
Inf == [kind |-> "inf"]

\* The float num / den
Float(num, den) == [kind |-> "float", num |-> num, den |-> den]

\* The literal 0.0
Zero == Float(0, 1)

\* Nearest integer to n / d for d > 0, ties to the even one
RoundHalfEven(n, d) ==
    LET q == n \div d
        r == n % d
    IN IF 2 * r < d THEN q
       ELSE IF 2 * r > d THEN q + 1
       ELSE IF q % 2 = 0 THEN q ELSE q + 1

\* round(x, 2) of a finite float, in hundredths
Round2(x) ==
    IF x.den > 0 THEN RoundHalfEven(x.num * 100, x.den)
    ELSE RoundHalfEven((0 - x.num) * 100, 0 - x.den)

\* round(rate, 5) of a rate given as num / den millionths, in millionths
Round5(num, den) == RoundHalfEven(num, den * 10) * 10

\* Faulty variant: the zero test looks at the new value
calculate_percentage_change_TestsNew(old, new) ==
    IF new = 0 THEN (IF old = 0 THEN Zero ELSE Inf)
    ELSE IF old = 0 THEN Inf
    ELSE Float((new - old) * 100, old)

\* FinanceCalculator.calculate_percentage_change
calculate_percentage_change(old, new) ==
    IF old = 0 THEN (IF new = 0 THEN Zero ELSE Inf)
    ELSE Float((new - old) * 100, old)

\* round(pct_change, 2) if pct_change != float('inf') else 'N/A'
FormatPct(pct_change) ==
    IF pct_change # Inf THEN [kind |-> "number", hundredths |-> Round2(pct_change)]
    ELSE [kind |-> "N/A"]

\* rates.keys(), in iteration order
Keys(od) == [i \in 1..Len(od) |-> od[i][1]]

\* rates[date]
Lookup(od, k) == od[CHOOSE i \in 1..Len(od) : od[i][1] = k][2]

RECURSIVE InsertSorted(_, _)
InsertSorted(x, s) ==
    IF s = << >> THEN <<x>>
    ELSE IF StrLess(x, Head(s)) THEN <<x>> \o s
    ELSE <<Head(s)>> \o InsertSorted(x, Tail(s))

\* Faulty variant: the dates are taken in iteration order
sorted_Unsorted(keys) == keys

\* sorted(rates.keys())
RECURSIVE sorted(_)
sorted(keys) ==
    IF keys = << >> THEN << >> ELSE InsertSorted(Head(keys), sorted(Tail(keys)))

RECURSIVE SumSeq(_)
SumSeq(q) == IF q = << >> THEN 0 ELSE Head(q) + SumSeq(Tail(q))

\* Faulty variant: only a failed retrieval is an error
ErrorFor_NoEmptyCheck(rd) ==
    IF ~DictGet(rd, "success", FALSE)
    THEN [error |-> "Failed to retrieve rates data"]
    ELSE [ok |-> TRUE]

\* process_rates_data, lines 190-195: the early error returns
ErrorFor(rd) ==
    IF ~DictGet(rd, "success", FALSE)
    THEN [error |-> "Failed to retrieve rates data"]
    ELSE IF DictGet(rd, "rates", << >>) = << >>
    THEN [error |-> "No rates data available"]
    ELSE [ok |-> TRUE]

\* process_rates_data, lines 197-239
process_rates_data(rd, to_currency, mode) ==
    IF "error" \in DOMAIN ErrorFor(rd) THEN ErrorFor(rd)
    ELSE
    LET rts == DictGet(rd, "rates", << >>)
        sorted_dates == sorted(Keys(rts))
        n == Len(sorted_dates)
        rate_values == [i \in 1..n |-> DictGet(Lookup(rts, sorted_dates[i]), to_currency, 0)]
        daily_data ==
            [i \in 1..n |->
                [date |-> sorted_dates[i],
                 rate |-> Round5(rate_values[i], 1),
                 pct_change |->
                    FormatPct(IF i > 1
                              THEN calculate_percentage_change(rate_values[i - 1],
                                                               rate_values[i])
                              ELSE Zero)]]
        start_rate == IF n > 0 THEN rate_values[1] ELSE 0
        end_rate == IF n > 0 THEN rate_values[n] ELSE 0
        total_pct_change == calculate_percentage_change(start_rate, end_rate)
        totals ==
            [start_rate |-> Round5(start_rate, 1),
             end_rate |-> Round5(end_rate, 1),
             total_pct_change |-> FormatPct(total_pct_change),
             mean_rate |-> IF n > 0 THEN Round5(SumSeq(rate_values), n) ELSE 0]
    IN IF mode = "day" THEN [totals |-> totals, breakdown |-> daily_data]
       ELSE [totals |-> totals]

\* What one date of a series may map to, rates in millionths
SeriesRateData == { [EUR |-> 0], [EUR |-> 900], [EUR |-> 915], [GBP |-> 790] }

\* Dicts in insertion order: sequences of pairs with distinct date keys
IsSeries(q) == \A i \in 1..Len(q), j \in 1..Len(q) : q[i][1] = q[j][1] => i = j

\* The dicts get_rates can hand to process_rates_data without a series
SeriesLessResults ==
    { [success |-> FALSE, error |-> "Expecting value"], [success |-> TRUE] }

\* The success dict get_rates hands to process_rates_data, its series being q
SeriesResult(q) ==
    [success |-> TRUE, historical |-> TRUE, base |-> FromCurrency, rates |-> q]

BreakdownModes == {"day", "none"}

\* Arguments of calculate_percentage_change, rates in millionths among them
PctValues == {-100, 0, 5, 50, 100, 150, 300, 900, 910, 915}

\* FinanceCalculator.process_rates_data
ProcessRatesData(rd, mode) ==
    /\ cpc = "idle"
    /\ rates_data' = rd
    /\ breakdown' = mode
    /\ output' = process_rates_data(rd, ToCurrency, mode)
    /\ cpc' = "processed"
    /\ UNCHANGED <<old_value, new_value, ret>>
    /\ UNCHANGED retrieval_vars

\* FinanceCalculator.calculate_percentage_change
CalculatePercentageChange(old, new) ==
    /\ cpc = "idle"
    /\ old_value' = old
    /\ new_value' = new
    /\ ret' = calculate_percentage_change(old, new)
    /\ cpc' = "returned"
    /\ UNCHANGED <<rates_data, breakdown, output>>
    /\ UNCHANGED retrieval_vars

NextCalc ==
    \/ /\ cpc = "idle"
       /\ \E rd \in SeriesLessResults, mode \in BreakdownModes : ProcessRatesData(rd, mode)
    \/ /\ cpc = "idle"
       /\ \E n \in 0..MaxSeriesLen, mode \in BreakdownModes :
             \E q \in [1..n -> AllDates \X SeriesRateData] :
                 IsSeries(q) /\ ProcessRatesData(SeriesResult(q), mode)
    \/ /\ cpc = "idle"
       /\ \E old \in PctValues, new \in PctValues : CalculatePercentageChange(old, new)

SpecCalc == Init /\ [][NextCalc]_vars

-----------------------------------------------------------------------------
(* Claims about FinanceCalculator *)

Abs(x) == IF x < 0 THEN 0 - x ELSE x

Processed == cpc = "processed"

\* The RateResult handed in says success
GivenSuccess == DictGet(rates_data, "success", FALSE)

\* The RateResult handed in carries a series with at least one entry
GivenSeries ==
    "rates" \in DOMAIN rates_data /\ Len(rates_data.rates) > 0

\* The dates of the series handed in
GivenDates == { rates_data.rates[i][1] : i \in 1..Len(rates_data.rates) }

\* The rate of the quote currency on date d in the series handed in
RateOn(d) ==
    LET rate_data == rates_data.rates[CHOOSE i \in 1..Len(rates_data.rates) :
                                        rates_data.rates[i][1] = d][2]
    IN IF ToCurrency \in DOMAIN rate_data THEN rate_data[ToCurrency] ELSE 0

\* r is the rate x (millionths) rounded to 5 decimal places
IsRounded5(r, x) == r % 10 = 0 /\ Abs(r - x) <= 5

\* p is the formatted percentage change from old to new, old >= 0
IsPctChange(p, old, new) ==
    IF old = 0
    THEN (IF new = 0 THEN p = [kind |-> "number", hundredths |-> 0]
          ELSE p = [kind |-> "N/A"])
    ELSE /\ p.kind = "number"
         /\ 2 * Abs(p.hundredths * old - (new - old) * 10000) <= old

\* C5: process_rates_data returns an error result, with no totals and no
\* breakdown, exactly when the RateResult says failure or its series is
\* empty; a successful RateResult with an empty series gives the message
\* "No rates data available"; every successful non-empty RateResult gives
\* totals and no error key.
C5_ErrorExactlyOnFailureOrEmpty ==
    Processed =>
        /\ ("error" \in DOMAIN output) <=> (~GivenSuccess \/ ~GivenSeries)
        /\ ("error" \in DOMAIN output) => DOMAIN output = {"error"}
        /\ (GivenSuccess /\ ~GivenSeries) => output.error = "No rates data available"
        /\ (GivenSuccess /\ GivenSeries) => "totals" \in DOMAIN output

C5_Witness ==
    /\ Processed /\ GivenSuccess
    /\ "rates" \in DOMAIN rates_data /\ rates_data.rates = << >>
    /\ output = [error |-> "No rates data available"]

\* C6 as stated: calculate_percentage_change(0, 0) is 0.0; for old == 0 and
\* new != 0 it returns the undefined sentinel, a non-numeric marker and not an
\* infinite float; for old != 0 it returns ((new - old) / old) * 100.
C6_ReturnsSentinel ==
    (cpc = "returned") =>
        /\ (old_value = 0 /\ new_value = 0) => ret = Zero
        /\ (old_value = 0 /\ new_value # 0) => (ret # Inf /\ ret.kind = "N/A")
        /\ (old_value # 0) =>
              (ret.kind = "float"
                 /\ ret.num * old_value = (new_value - old_value) * 100 * ret.den)

\* C6 as amended: calculate_percentage_change(0, 0) is 0.0; for old == 0 and
\* new != 0 it returns the infinite float float('inf'), without raising,
\* which the output formatting of process_rates_data turns into the
\* non-numeric marker 'N/A'; for old != 0 it returns
\* ((new - old) / old) * 100, so (100, 150) gives 50.0 and (100, 50) -50.0.
C6_ReturnsInfFormattedAsNA ==
    (cpc = "returned") =>
        /\ (old_value = 0 /\ new_value = 0) => ret = Zero
        /\ (old_value = 0 /\ new_value # 0) =>
              (ret = Inf /\ FormatPct(ret) = [kind |-> "N/A"])
        /\ (old_value # 0) =>
              (ret.kind = "float" /\ ret.den # 0
                 /\ ret.num * old_value = (new_value - old_value) * 100 * ret.den)
        /\ (old_value = 100 /\ new_value = 150) => FormatPct(ret).hundredths = 5000
        /\ (old_value = 100 /\ new_value = 50) => FormatPct(ret).hundredths = -5000

C6_Witness == cpc = "returned" /\ old_value = 0 /\ new_value = 5 /\ ret = Inf

\* C7: for every successful non-empty series, whatever the iteration order of
\* the input dict, the breakdown has one entry per series date in strictly
\* ascending date order, the first entry's pct_change is 0.0, each later
\* entry's pct_change is the (formatted) percentage change from the rate of
\* the entry just before it to its own rate, and totals.start_rate and
\* totals.end_rate are the (rounded) rates of the earliest and latest dates.
C7_BreakdownInDateOrder ==
    (Processed /\ GivenSuccess /\ GivenSeries) =>
        LET first == CHOOSE d \in GivenDates :
                        \A e \in GivenDates : DayIndex(d) <= DayIndex(e)
            last == CHOOSE d \in GivenDates :
                        \A e \in GivenDates : DayIndex(e) <= DayIndex(d)
        IN /\ IsRounded5(output.totals.start_rate, RateOn(first))
           /\ IsRounded5(output.totals.end_rate, RateOn(last))
           /\ (breakdown = "day") =>
                LET b == output.breakdown
                    n == Len(b)
                IN /\ n = Cardinality(GivenDates)
                   /\ { b[i].date : i \in 1..n } = GivenDates
                   /\ \A i \in 1..(n - 1) : DayIndex(b[i].date) < DayIndex(b[i + 1].date)
                   /\ \A i \in 1..n : IsRounded5(b[i].rate, RateOn(b[i].date))
                   /\ b[1].pct_change = [kind |-> "number", hundredths |-> 0]
                   /\ \A i \in 2..n :
                         IsPctChange(b[i].pct_change, RateOn(b[i - 1].date),
                                     RateOn(b[i].date))

C7_Witness ==
    /\ Processed /\ GivenSuccess /\ GivenSeries /\ breakdown = "day"
    /\ Len(rates_data.rates) = 3
    /\ DayIndex(rates_data.rates[1][1]) = 2
    /\ DayIndex(rates_data.rates[2][1]) = 0
    /\ DayIndex(rates_data.rates[3][1]) = 1
    /\ output.breakdown[3].date = rates_data.rates[1][1]
    /\ output.breakdown[2].pct_change = [kind |-> "N/A"]
    /\ output.breakdown[3].pct_change = [kind |-> "number", hundredths |-> 167]

=============================================================================
